---- MODULE Spec2Model ----
(***************************************************************************)
(* DonorSearch: the donor-lookup pipeline of donor_lookup.py.              *)
(*                                                                         *)
(* Texts are sequences of one-character strings, so that the regular       *)
(* expressions, strip(), split() and upper() of the source are computed    *)
(* character by character.                                                 *)
(***************************************************************************)
EXTENDS Integers, Sequences, FiniteSets, Bags, TLC

VARIABLES
    pc,            \* position of the running program / of the call under study
    names,         \* process_all_donors: names
    i,             \* process_all_donors: loop counter of enumerate(names, 1)
    results,       \* process_all_donors: results
    sleeps,        \* number of time.sleep(delay_seconds) calls performed
    fetches,       \* history: what requests.get did for each query issued
    donor_groups,  \* __main__: donor_groups (the empty mapping until it is assigned)
    html,          \* parse_donation_table: html_content (argument)
    donations,     \* parse_donation_table: returned list
    flat,          \* aggregation study: the (searched name, record) pairs folded
    g_recs,        \* grouper: per query name, the records handed to group
    g_q,           \* grouper: index of the query whose group call is running
    g_i,           \* grouper: outer loop index
    g_used,        \* grouper: consumed indices
    g_groups,      \* grouper: groups built so far by the running call
    variants,      \* grouper: per query name, the VariantGroups returned
    s_blob,        \* splitter: blob (argument)
    s_query,       \* splitter: queryName (argument)
    s_split        \* splitter: the pair returned (empty until the call returns)

vars == <<pc, names, i, results, sleeps, fetches, donor_groups, html, donations,
          flat, g_recs, g_q, g_i, g_used, g_groups, variants, s_blob, s_query, s_split>>

\* An optional value is a sequence of at most one element: None is <<>> and a
\* value x that is present is <<x>>.
None == <<>>

Some(x) == <<x>>

(***************************************************************************)
(* Characters and the string methods the source uses                       *)
(***************************************************************************)
DigitChars == <<"0", "1", "2", "3", "4", "5", "6", "7", "8", "9">>

Lowers == <<"a", "b", "c", "d", "e", "f", "g", "h", "i", "j", "k", "l", "m",
            "n", "o", "p", "q", "r", "s", "t", "u", "v", "w", "x", "y", "z">>

Uppers == <<"A", "B", "C", "D", "E", "F", "G", "H", "I", "J", "K", "L", "M",
            "N", "O", "P", "Q", "R", "S", "T", "U", "V", "W", "X", "Y", "Z">>

Range(s) == {s[k] : k \in DOMAIN s}

\* \d
Digits == Range(DigitChars)

\* [A-Z]
UpperAZ == Range(Uppers)

\* \s, and the characters str.strip() removes
Whitespace == {" ", "\n", "\t"}

DigitVal(c) == (CHOOSE k \in DOMAIN DigitChars : DigitChars[k] = c) - 1

UpperChar(c) ==
    IF c \in Range(Lowers) THEN Uppers[CHOOSE k \in DOMAIN Lowers : Lowers[k] = c] ELSE c

\* str.upper()
StrUpper(s) == [k \in DOMAIN s |-> UpperChar(s[k])]

\* str.strip()
StrStrip(s) ==
    LET keep == {k \in DOMAIN s : s[k] \notin Whitespace}
    IN  IF keep = {} THEN <<>>
        ELSE LET lo == CHOOSE k \in keep : \A m \in keep : k <= m
                 hi == CHOOSE k \in keep : \A m \in keep : m <= k
             IN  SubSeq(s, lo, hi)

\* s.split('\n')[0]
FirstLine(s) ==
    LET nl == {k \in DOMAIN s : s[k] = "\n"}
    IN  IF nl = {} THEN s
        ELSE SubSeq(s, 1, (CHOOSE k \in nl : \A m \in nl : k <= m) - 1)

\* str.replace(',', '')
RemoveCommas(s) == SelectSeq(s, LAMBDA c : c # ",")

\* int(s) of a non-empty string of decimal digits
RECURSIVE IntOf(_)
IntOf(s) ==
    IF s = <<>> THEN 0
    ELSE 10 * IntOf(SubSeq(s, 1, Len(s) - 1)) + DigitVal(s[Len(s)])

\* the end of the longest run of characters of cls that starts at position p
RunEnd(s, p, cls) ==
    CHOOSE e \in (p - 1)..Len(s) :
        /\ \A k \in p..e : s[k] \in cls
        /\ (e < Len(s) => s[e + 1] \notin cls)

(***************************************************************************)
(* parse_donation_table                                                    *)
(***************************************************************************)
MinCells == 8

\* re.search(r'\$([\d,]+)', amount_text): group(1) of the leftmost match, or None
AmountMatch(t) ==
    LET starts == {p \in DOMAIN t : /\ t[p] = "$"
                                    /\ p < Len(t)
                                    /\ t[p + 1] \in Digits \cup {","}}
    IN  IF starts = {} THEN None
        ELSE LET p == CHOOSE q \in starts : \A m \in starts : q <= m
             IN  Some(SubSeq(t, p + 1, RunEnd(t, p + 1, Digits \cup {","})))

\* int('') raises ValueError: the match holds commas only
AmountRaises(t) == AmountMatch(t) # None /\ RemoveCommas(AmountMatch(t)[1]) = <<>>

\* donation['amount_numeric']
AmountNumeric(t) ==
    IF AmountMatch(t) # None THEN IntOf(RemoveCommas(AmountMatch(t)[1])) ELSE 0

\* (mutant of ContributorState: \s* where the source has \s+)
ContributorState_NoWhitespaceNeeded(t) ==
    LET hits == {p \in DOMAIN t :
                    /\ p + 1 <= Len(t)
                    /\ t[p] \in UpperAZ /\ t[p + 1] \in UpperAZ
                    /\ LET e == RunEnd(t, p + 2, Whitespace)
                       IN  /\ e + 5 <= Len(t)
                           /\ \A k \in (e + 1)..(e + 5) : t[k] \in Digits}
    IN  IF hits = {} THEN <<>>
        ELSE LET p == CHOOSE q \in hits : \A m \in hits : q <= m
             IN  SubSeq(t, p, p + 1)

\* re.search(r'([A-Z]{2})\s+\d{5}', contributor_text): group(1) or ''
ContributorState(t) ==
    LET hits == {p \in DOMAIN t :
                    /\ p + 1 <= Len(t)
                    /\ t[p] \in UpperAZ /\ t[p + 1] \in UpperAZ
                    /\ LET e == RunEnd(t, p + 2, Whitespace)
                       IN  /\ e >= p + 2
                           /\ e + 5 <= Len(t)
                           /\ \A k \in (e + 1)..(e + 5) : t[k] \in Digits}
    IN  IF hits = {} THEN <<>>
        ELSE LET p == CHOOSE q \in hits : \A m \in hits : q <= m
             IN  SubSeq(t, p, p + 1)

\* re.search(r'\(([DR])\)', recipient_text): group(1) or ''
RecipientParty(t) ==
    LET hits == {p \in DOMAIN t :
                    /\ p + 2 <= Len(t)
                    /\ t[p] = "(" /\ t[p + 1] \in {"D", "R"} /\ t[p + 2] = ")"}
    IN  IF hits = {} THEN <<>>
        ELSE <<t[(CHOOSE q \in hits : \A m \in hits : q <= m) + 1]>>

\* the dictionary built from one row's cells (the body of the try block)
BuildDonation(cells) ==
    [category          |-> cells[1],
     contributor       |-> cells[2],
     employer          |-> cells[3],
     occupation        |-> cells[4],
     date              |-> cells[5],
     amount            |-> cells[6],
     recipient         |-> cells[7],
     jurisdiction      |-> cells[8],
     amount_numeric    |-> AmountNumeric(cells[6]),
     contributor_state |-> ContributorState(cells[2]),
     recipient_party   |-> RecipientParty(cells[7])]

\* one iteration of the loop over rows[1:]: what it appends to donations
ParseRow(cells) ==
    IF Len(cells) >= MinCells
    THEN IF AmountRaises(cells[6]) THEN <<>> ELSE <<BuildDonation(cells)>>
    ELSE <<>>

\* (mutant of ParseRowsFrom: `break` where the source has `continue`)
RECURSIVE ParseRowsFrom_BreakOnSkip(_, _)
ParseRowsFrom_BreakOnSkip(rows, k) ==
    IF k > Len(rows) THEN <<>>
    ELSE IF ParseRow(rows[k]) = <<>> THEN <<>>
         ELSE ParseRow(rows[k]) \o ParseRowsFrom_BreakOnSkip(rows, k + 1)

\* the loop `for row in rows[1:]`, from row k on
RECURSIVE ParseRowsFrom(_, _)
ParseRowsFrom(rows, k) ==
    IF k > Len(rows) THEN <<>>
    ELSE ParseRow(rows[k]) \o ParseRowsFrom(rows, k + 1)

\* html_content is modelled by what BeautifulSoup finds in it: the sequence of
\* its tables, each the sequence of its tr rows, each the sequence of the
\* get_text(strip=True) of its td cells.
parse_donation_table(html_content) ==
    IF html_content = <<>> THEN <<>>
    ELSE ParseRowsFrom(html_content[1], 2)

(***************************************************************************)
(* query_opensecrets_donor: the two dictionaries it returns                *)
(***************************************************************************)
RECURSIVE SumAmounts(_)
SumAmounts(ds) ==
    IF ds = <<>> THEN 0 ELSE ds[1].amount_numeric + SumAmounts(Tail(ds))

\* the url: the fixed prefix and quote_plus(name); the names of the model hold
\* letters only, which quote_plus leaves as they are
UrlOf(name) == <<"https://www.opensecrets.org/donor-lookup/results?name=", name>>

\* (mutant of OkResult: total_amount is the amount of the first donation)
OkResult_FirstAmount(name, status, ds) ==
    [name            |-> name,
     url             |-> UrlOf(name),
     status_code     |-> Some(status),
     donations       |-> ds,
     total_donations |-> Len(ds),
     total_amount    |-> IF ds = <<>> THEN 0 ELSE ds[1].amount_numeric,
     success         |-> TRUE,
     error           |-> None]

\* the dictionary returned after a response that raise_for_status accepts
OkResult(name, status, ds) ==
    [name            |-> name,
     url             |-> UrlOf(name),
     status_code     |-> Some(status),
     donations       |-> ds,
     total_donations |-> Len(ds),
     total_amount    |-> SumAmounts(ds),
     success         |-> TRUE,
     error           |-> None]

\* the dictionary returned from the except branch
FailResult(name, err) ==
    [name            |-> name,
     url             |-> UrlOf(name),
     status_code     |-> None,
     donations       |-> <<>>,
     total_donations |-> 0,
     total_amount    |-> 0,
     success         |-> FALSE,
     error           |-> Some(err)]

HttpErrorFrom == 400

\* (mutant of QueryResult: raise_for_status is not called)
QueryResult_NoRaiseForStatus(name, outcome) ==
    IF outcome.kind = "exception" THEN FailResult(name, outcome.error)
    ELSE OkResult(name, outcome.status, parse_donation_table(outcome.text))

\* query_opensecrets_donor(name), given what requests.get does: it raises a
\* RequestException, or returns a response with a status and a text, for which
\* raise_for_status raises an HTTPError when the status is 400 or more
QueryResult(name, outcome) ==
    IF outcome.kind = "exception" THEN FailResult(name, outcome.error)
    ELSE IF outcome.status >= HttpErrorFrom THEN FailResult(name, "HTTPError")
    ELSE OkResult(name, outcome.status, parse_donation_table(outcome.text))

\* (mutant of AfterQuery: the loop ends one name early)
AfterQuery_StopEarly(k, n) == IF k + 1 < n THEN "sleep" ELSE "save"

\* (mutant of AfterQuery: the delay also follows the last query)
AfterQuery_SleepAfterLast(k, n) == IF k <= n THEN "sleep" ELSE "save"

\* after the k-th of n queries: sleep when i < len(names), else return
AfterQuery(k, n) == IF k < n THEN "sleep" ELSE "save"

(***************************************************************************)
(* extract_donor_key and group_donors_and_analyze_party                    *)
(***************************************************************************)
\* (mutant of extract_donor_key: the key is not upper-cased)
extract_donor_key_NoUpper(donation) ==
    StrStrip(FirstLine(StrStrip(donation.contributor)))
        \o <<"|">> \o StrStrip(donation.contributor_state)
        \o <<"|">> \o StrStrip(donation.employer)
        \o <<"|">> \o StrStrip(donation.occupation)

extract_donor_key(donation) ==
    LET contributor == StrStrip(donation.contributor)
        state == StrStrip(donation.contributor_state)
        employer == StrStrip(donation.employer)
        occupation == StrStrip(donation.occupation)
        name == StrStrip(FirstLine(contributor))
    IN  StrUpper(name \o <<"|">> \o state \o <<"|">> \o employer
                      \o <<"|">> \o occupation)

\* the profile created when a key is first seen
NewDonorGroup(donation, searched_name) ==
    [donor_info |->
        [name          |-> StrStrip(FirstLine(donation.contributor)),
         state         |-> donation.contributor_state,
         employer      |-> donation.employer,
         occupation    |-> donation.occupation,
         searched_name |-> searched_name],
     donations |-> <<>>,
     party_analysis |->
        [democratic_count  |-> 0, republican_count  |-> 0, other_count  |-> 0,
         democratic_amount |-> 0, republican_amount |-> 0, other_amount |-> 0,
         total_donations   |-> 0, total_amount      |-> 0]]

\* (mutant of UpdateAnalysis: total_amount is assigned where the source adds)
UpdateAnalysis_AssignTotal(analysis, party, amount) ==
    LET a == [analysis EXCEPT !.total_donations = @ + 1, !.total_amount = amount]
    IN  IF party = <<"D">>
        THEN [a EXCEPT !.democratic_count = @ + 1, !.democratic_amount = @ + amount]
        ELSE IF party = <<"R">>
        THEN [a EXCEPT !.republican_count = @ + 1, !.republican_amount = @ + amount]
        ELSE [a EXCEPT !.other_count = @ + 1, !.other_amount = @ + amount]

\* (mutant of UpdateAnalysis: `if` where the source has `elif`, so that a
\* donation to D also falls into the final else)
UpdateAnalysis_IfNotElif(analysis, party, amount) ==
    LET a == [analysis EXCEPT !.total_donations = @ + 1, !.total_amount = @ + amount]
        b == IF party = <<"D">>
             THEN [a EXCEPT !.democratic_count = @ + 1, !.democratic_amount = @ + amount]
             ELSE a
    IN  IF party = <<"R">>
        THEN [b EXCEPT !.republican_count = @ + 1, !.republican_amount = @ + amount]
        ELSE [b EXCEPT !.other_count = @ + 1, !.other_amount = @ + amount]

\* the update of party_analysis for one donation
UpdateAnalysis(analysis, party, amount) ==
    LET a == [analysis EXCEPT !.total_donations = @ + 1, !.total_amount = @ + amount]
    IN  IF party = <<"D">>
        THEN [a EXCEPT !.democratic_count = @ + 1, !.democratic_amount = @ + amount]
        ELSE IF party = <<"R">>
        THEN [a EXCEPT !.republican_count = @ + 1, !.republican_amount = @ + amount]
        ELSE [a EXCEPT !.other_count = @ + 1, !.other_amount = @ + amount]

\* (mutant of FoldDonation: the donation that creates a profile is not added)
FoldDonation_SkipFirst(groups, searched_name, donation) ==
    LET donor_key == extract_donor_key(donation)
    IN  IF donor_key \notin DOMAIN groups
        THEN (donor_key :> NewDonorGroup(donation, searched_name)) @@ groups
        ELSE [groups EXCEPT ![donor_key] =
                [@ EXCEPT !.donations = Append(@, donation),
                          !.party_analysis =
                              UpdateAnalysis(@, donation.recipient_party,
                                             donation.amount_numeric)]]

\* the body of the inner loop: fold one donation of the result named searched_name
FoldDonation(groups, searched_name, donation) ==
    LET donor_key == extract_donor_key(donation)
        g0 == IF donor_key \in DOMAIN groups THEN groups
              ELSE (donor_key :> NewDonorGroup(donation, searched_name)) @@ groups
    IN  [g0 EXCEPT ![donor_key] =
            [@ EXCEPT !.donations = Append(@, donation),
                      !.party_analysis =
                          UpdateAnalysis(@, donation.recipient_party,
                                         donation.amount_numeric)]]

\* the inner loop over result['donations'], from donation k on
RECURSIVE FoldDonations(_, _, _, _)
FoldDonations(groups, searched_name, ds, k) ==
    IF k > Len(ds) THEN groups
    ELSE FoldDonations(FoldDonation(groups, searched_name, ds[k]), searched_name, ds, k + 1)

\* the outer loop over results, from result k on
RECURSIVE FoldResults(_, _, _)
FoldResults(groups, rs, k) ==
    IF k > Len(rs) THEN groups
    ELSE IF rs[k].success /\ rs[k].donations # <<>>
         THEN FoldResults(FoldDonations(groups, rs[k].name, rs[k].donations, 1), rs, k + 1)
         ELSE FoldResults(groups, rs, k + 1)

RECURSIVE GCD(_, _)
GCD(a, b) == IF b = 0 THEN a ELSE GCD(b, a % b)

\* (count / total) * 100: the float is modelled by the rational it rounds, as a
\* reduced fraction <<numerator, denominator>>; for the counts of the model the
\* comparisons of the floats and of the rationals agree
Percentage(count, total) ==
    LET g == GCD(100 * count, total)
    IN  <<(100 * count) \div g, total \div g>>

StrongThreshold == 80

PctAtLeast(p, n) == p[1] >= n * p[2]

PctGreater(p, q) == p[1] * q[2] > q[1] * p[2]

\* (mutant of PartyPreference: > 80 where the source has >= 80)
PartyPreference_StrictThreshold(dem, rep) ==
    IF PctGreater(dem, <<StrongThreshold, 1>>) THEN "Strong Democratic"
    ELSE IF PctGreater(rep, <<StrongThreshold, 1>>) THEN "Strong Republican"
    ELSE IF PctGreater(dem, rep) THEN "Lean Democratic"
    ELSE IF PctGreater(rep, dem) THEN "Lean Republican"
    ELSE "Mixed/Independent"

\* the if/elif chain on the percentages
PartyPreference(dem, rep) ==
    IF PctAtLeast(dem, StrongThreshold) THEN "Strong Democratic"
    ELSE IF PctAtLeast(rep, StrongThreshold) THEN "Strong Republican"
    ELSE IF PctGreater(dem, rep) THEN "Lean Democratic"
    ELSE IF PctGreater(rep, dem) THEN "Lean Republican"
    ELSE "Mixed/Independent"

\* the second loop: percentages and party_preference of one profile
AnalyzeGroup(group) ==
    LET analysis == group.party_analysis
        total == analysis.total_donations
        pcts ==
            IF total > 0
            THEN LET dem == Percentage(analysis.democratic_count, total)
                     rep == Percentage(analysis.republican_count, total)
                 IN  [democratic_percentage |-> dem,
                      republican_percentage |-> rep,
                      other_percentage      |-> Percentage(analysis.other_count, total),
                      party_preference      |-> PartyPreference(dem, rep)]
            ELSE [democratic_percentage |-> <<0, 1>>,
                  republican_percentage |-> <<0, 1>>,
                  other_percentage      |-> <<0, 1>>,
                  party_preference      |-> "Unknown"]
    IN  [group EXCEPT !.party_analysis = pcts @@ analysis]

group_donors_and_analyze_party(rs) ==
    LET donor_groups_1 == FoldResults(<<>>, rs, 1)
    IN  [donor_key \in DOMAIN donor_groups_1 |-> AnalyzeGroup(donor_groups_1[donor_key])]

(***************************************************************************)
(* Bounded inputs                                                          *)
(***************************************************************************)
SeqsUpTo(S, n) == UNION {[1..k -> S] : k \in 0..n}

\* cell texts, as get_text(strip=True) returns them
TxtAlGA == <<"A", "l", "\n", "G", "A", " ", "3", "0", "3", "6", "0">>
TxtALGA == <<"A", "L", "\n", "G", "A", " ", "3", "0", "3", "6", "0">>
TxtBo == <<"B", "o">>
TxtIBM == <<"I", "B", "M">>
TxtIbm == <<"i", "b", "m">>
TxtCEO == <<"C", "E", "O">>
TxtCeo == <<"c", "e", "o">>
TxtDem == <<"X", " ", "(", "D", ")">>
TxtRep == <<"Y", " ", "(", "R", ")">>
TxtPac == <<"P", "A", "C">>
TxtCat == <<"$">>
TxtDate == <<"1", "-", "2">>
TxtJur == <<"F">>
TxtAmt5 == <<"$", "5">>
TxtAmt1200 == <<"$", "1", ",", "2", "0", "0">>
TxtAmtNA == <<"N", "/", "A">>
TxtAmtCommas == <<"$", ",">>

\* tr rows, each the texts of its td cells
RowHeader == <<>>
RowDem == <<TxtCat, TxtAlGA, TxtIBM, TxtCEO, TxtDate, TxtAmt5, TxtDem, TxtJur>>
RowRep == <<TxtCat, TxtALGA, TxtIbm, TxtCeo, TxtDate, TxtAmt1200, TxtRep, TxtJur>>
RowOther == <<TxtCat, TxtBo, <<>>, TxtCEO, TxtDate, TxtAmtNA, TxtPac, TxtJur, TxtJur>>
RowShort == <<TxtCat, TxtAlGA, TxtIBM, TxtCEO, TxtDate, TxtAmt5, TxtDem>>
RowBadAmount == <<TxtCat, TxtAlGA, TxtIBM, TxtCEO, TxtDate, TxtAmtCommas, TxtDem, TxtJur>>
RowWithAmount(t) == <<TxtCat, TxtBo, TxtIBM, TxtCEO, TxtDate, t, TxtPac, TxtJur>>

QueryNames == <<"ann", "bo", "cy", "di", "ed">>

RowPool == {RowHeader, RowDem, RowRep, RowOther, RowShort, RowBadAmount}

MaxRows == 4

AmountChars == {"$", ",", "1", "2", "-"}

MaxAmountLen == 4

RecipientChars == {"(", ")", "D", "R"}

\* a lower-case letter and another letter in parentheses
OtherMarks == {<<"(", "d", ")">>, <<"(", "X", ")", "(", "R", ")">>}

MaxRecipientLen == 6

StateChars == {"G", "A", "a", " ", "\n"}

MaxStatePrefix == 4

RowWithRecipient(t) == <<TxtCat, TxtAlGA, TxtIBM, TxtCEO, TxtDate, TxtAmt5, t, TxtJur>>

RowWithContributor(t) == <<TxtCat, t, TxtIBM, TxtCEO, TxtDate, TxtAmt5, TxtDem, TxtJur>>

\* pages with a header row and one data row, over every recipient text
RecipientInputs ==
    {<<<<RowHeader, RowWithRecipient(t)>>>> :
        t \in SeqsUpTo(RecipientChars, MaxRecipientLen) \cup OtherMarks}

\* pages with a header row and one data row whose contributor text is a prefix
\* of letters and blanks followed by four, five or six digits
ContributorInputs ==
    {<<<<RowHeader, RowWithContributor(StrStrip(p \o <<"3", "0", "3", "6">> \o q))>>>> :
        p \in SeqsUpTo(StateChars, MaxStatePrefix),
        q \in {<<>>, <<"0">>, <<"0", "7">>}}

\* pages with no table, and pages whose first table holds up to MaxRows rows
TableInputs == {<<>>} \cup {<<rows>> : rows \in SeqsUpTo(RowPool, MaxRows)}

\* pages with a header row and one data row, over every amount text
AmountInputs ==
    {<<<<RowHeader, RowWithAmount(t)>>>> : t \in SeqsUpTo(AmountChars, MaxAmountLen)}

(***************************************************************************)
(* Values of the variables a specification does not use                    *)
(***************************************************************************)
PipelineIdle ==
    /\ names = <<>> /\ i = 0 /\ results = <<>> /\ sleeps = 0
    /\ fetches = <<>> /\ donor_groups = <<>>

ParseIdle == html = <<>> /\ donations = <<>>

FoldIdle == flat = <<>>

SplitIdle == s_blob = <<>> /\ s_query = <<>> /\ s_split = <<>>

GroupIdle ==
    /\ g_recs = <<>> /\ g_q = 0 /\ g_i = 0 /\ g_used = {}
    /\ g_groups = <<>> /\ variants = <<>>

pipelineVars == <<names, i, results, sleeps, fetches, donor_groups>>
parseVars == <<html, donations>>
groupVars == <<g_recs, g_q, g_i, g_used, g_groups, variants>>

(***************************************************************************)
(* SpecParse: one call of parse_donation_table                             *)
(***************************************************************************)
InitParse ==
    /\ pc = "parse"
    /\ html \in TableInputs \cup AmountInputs \cup RecipientInputs \cup ContributorInputs
    /\ donations = <<>>
    /\ PipelineIdle /\ FoldIdle /\ GroupIdle /\ SplitIdle

ParseTable ==
    /\ pc = "parse"
    /\ donations' = parse_donation_table(html)
    /\ pc' = "parsed"
    /\ UNCHANGED <<html, flat, s_blob, s_query, s_split>>
    /\ UNCHANGED pipelineVars
    /\ UNCHANGED groupVars

NextParse == ParseTable

SpecParse == InitParse /\ [][NextParse]_vars

\* the rows of the page's first table
TableRows == IF html = <<>> THEN <<>> ELSE html[1]

\* the data rows that have enough cells and whose fields can all be derived
KeptRows ==
    {k \in 2..Len(TableRows) :
        Len(TableRows[k]) >= 8 /\ ~AmountRaises(TableRows[k][6])}

\* C5: parse_donation_table skips row 0, discards rows with fewer than 8 cells,
\* drops rows whose field derivation fails, and emits exactly one record for
\* every other row, in row order, with that row's cell texts: what precedes or
\* follows a skipped row is neither removed nor changed.
C5_SkipNeverAbort ==
    pc = "parsed" =>
        /\ Len(donations) = Cardinality(KeptRows)
        /\ \A k \in KeptRows :
              LET d == donations[1 + Cardinality({m \in KeptRows : m < k})]
                  c == TableRows[k]
              IN  /\ d.category = c[1] /\ d.contributor = c[2]
                  /\ d.employer = c[3] /\ d.occupation = c[4]
                  /\ d.date = c[5] /\ d.amount = c[6]
                  /\ d.recipient = c[7] /\ d.jurisdiction = c[8]

\* a good row, a row whose amount cannot be derived, a good row: two records
C5_Witness ==
    /\ pc = "parsed"
    /\ Len(TableRows) = 4
    /\ TableRows[1] = RowDem
    /\ TableRows[2] = RowRep
    /\ TableRows[3] = RowBadAmount
    /\ TableRows[4] = RowOther
    /\ Len(donations) = 2
    /\ donations[2].contributor = TxtBo

\* the amount the text states: the digits of the leftmost '$<digits and commas>'
\* run that holds a digit, and 0 when there is none
StatedAmount(t) ==
    LET runs == {p \in DOMAIN t :
                    /\ t[p] = "$" /\ p < Len(t) /\ t[p + 1] \in Digits \cup {","}
                    /\ \E k \in (p + 1)..RunEnd(t, p + 1, Digits \cup {","}) :
                          t[k] \in Digits}
    IN  IF runs = {} THEN 0
        ELSE LET p == CHOOSE q \in runs : \A m \in runs : q <= m
             IN  IntOf(RemoveCommas(SubSeq(t, p + 1, RunEnd(t, p + 1, Digits \cup {","}))))

\* C6: amount parsing is total: every row with at least 8 cells gives a record
\* whose amount_numeric is a non-negative integer, the stated amount or 0 when
\* the text holds no parsable amount; never an error.
C6_AmountTotal ==
    pc = "parsed" =>
        \A k \in 2..Len(TableRows) :
            Len(TableRows[k]) >= 8 =>
                \E j \in DOMAIN donations :
                    /\ donations[j].amount = TableRows[k][6]
                    /\ donations[j].amount_numeric \in Nat
                    /\ donations[j].amount_numeric = StatedAmount(TableRows[k][6])

PartyMarks == {<<"(", "D", ")">>, <<"(", "R", ")">>}

\* the positions of t where "(D)" or "(R)" begins
MarkStarts(t) == {p \in 1..(Len(t) - 2) : SubSeq(t, p, p + 2) \in PartyMarks}

\* the positions p of t where two uppercase letters begin that are followed by
\* w >= 1 whitespace characters and then five digits
ZipStarts(t) ==
    {p \in 1..(Len(t) - 7) :
        /\ t[p] \in UpperAZ /\ t[p + 1] \in UpperAZ
        /\ \E w \in 1..(Len(t) - p - 6) :
              /\ \A k \in (p + 2)..(p + 1 + w) : t[k] \in Whitespace
              /\ \A k \in (p + 2 + w)..(p + 6 + w) : t[k] \in Digits}

\* C16: every emitted record has both fields, as texts; recipient_party is the
\* letter inside the first "(D)" or "(R)" of the recipient text and empty when
\* there is none, so it is "D", "R" or empty; contributor_state is the first
\* pair of uppercase letters of the contributor text that whitespace and five
\* digits follow and empty when there is none, so it is two uppercase letters
\* or empty.
C16_PartyAndStateValues ==
    pc = "parsed" =>
        \A j \in DOMAIN donations :
            LET d == donations[j]
                marks == MarkStarts(d.recipient)
                zips == ZipStarts(d.contributor)
            IN  /\ {"recipient_party", "contributor_state"} \subseteq DOMAIN d
                /\ d.recipient_party \in {<<"D">>, <<"R">>, <<>>}
                /\ marks = {} => d.recipient_party = <<>>
                /\ marks # {} =>
                      \E p \in marks :
                          /\ \A q \in marks : p <= q
                          /\ d.recipient_party = <<d.recipient[p + 1]>>
                /\ \/ d.contributor_state = <<>>
                   \/ /\ Len(d.contributor_state) = 2
                      /\ \A k \in 1..2 : d.contributor_state[k] \in UpperAZ
                /\ zips = {} => d.contributor_state = <<>>
                /\ zips # {} =>
                      \E p \in zips :
                          /\ \A q \in zips : p <= q
                          /\ d.contributor_state = SubSeq(d.contributor, p, p + 1)

\* a record whose recipient text holds "(R)" before "(D)", and whose
\* contributor text holds "GA", a blank and a five-digit code
C16_Witness ==
    /\ pc = "parsed"
    /\ Len(donations) = 1
    /\ donations[1].recipient = <<"(", "R", ")", "(", "D", ")">>
    /\ donations[1].recipient_party = <<"R">>
    /\ donations[1].contributor = TxtAlGA
    /\ donations[1].contributor_state = <<"G", "A">>

(***************************************************************************)
(* SpecParty: group_donors_and_analyze_party on one donor's donations      *)
(***************************************************************************)
RowAlOther == <<TxtCat, TxtAlGA, TxtIBM, TxtCEO, TxtDate, TxtAmtNA, TxtPac, TxtJur>>

RecDem == BuildDonation(RowDem)
RecRep == BuildDonation(RowRep)
RecAlOther == BuildDonation(RowAlOther)
RecOther == BuildDonation(RowOther)

MaxTally == 10

Repeat(x, n) == [k \in 1..n |-> x]

\* one successful result holding nd donations to D, nr to R and no to others,
\* all of one donor
TallyInputs ==
    {<<OkResult(QueryNames[1], 200,
                Repeat(RecDem, nd) \o Repeat(RecRep, nr) \o Repeat(RecAlOther, no))>> :
        nd \in 0..MaxTally, nr \in 0..MaxTally, no \in 0..MaxTally} 

InitParty ==
    /\ pc = "analyze"
    /\ results \in {rs \in TallyInputs : rs[1].total_donations <= MaxTally}
    /\ donor_groups = <<>>
    /\ names = <<>> /\ i = 0 /\ sleeps = 0 /\ fetches = <<>>
    /\ ParseIdle /\ FoldIdle /\ GroupIdle /\ SplitIdle

Analyze ==
    /\ pc = "analyze"
    /\ donor_groups' = group_donors_and_analyze_party(results)
    /\ pc' = "analyzed"
    /\ UNCHANGED <<names, i, results, sleeps, fetches, flat, s_blob, s_query, s_split>>
    /\ UNCHANGED parseVars
    /\ UNCHANGED groupVars

NextParty == Analyze

SpecParty == InitParty /\ [][NextParty]_vars

\* the profiles of the mapping returned
Profiles == {donor_groups[k] : k \in DOMAIN donor_groups}

\* the label the rules give, first match first, on the shares count/total
RuleLabel(d, r, t) ==
    IF 100 * d >= 80 * t THEN "Strong Democratic"
    ELSE IF 100 * r >= 80 * t THEN "Strong Republican"
    ELSE IF d > r THEN "Lean Democratic"
    ELSE IF r > d THEN "Lean Republican"
    ELSE "Mixed/Independent"

\* C1: every returned profile with at least one donation carries the label of
\* the first matching rule (>= 80% D, >= 80% R, D share > R share, R share > D
\* share, equal); 9 D of 10 is Strong Democratic, 5 D and 5 R of 10 is
\* Mixed/Independent, 6 D and 4 R of 10 is Lean Democratic.
C1_PartyPreference ==
    \A g \in Profiles :
        LET a == g.party_analysis
        IN  a.total_donations >= 1 =>
              /\ a.party_preference =
                    RuleLabel(a.democratic_count, a.republican_count, a.total_donations)
              /\ (a.democratic_count = 9 /\ a.total_donations = 10
                    => a.party_preference = "Strong Democratic")
              /\ (a.democratic_count = 5 /\ a.republican_count = 5
                    /\ a.total_donations = 10
                    => a.party_preference = "Mixed/Independent")
              /\ (a.democratic_count = 6 /\ a.republican_count = 4
                    /\ a.total_donations = 10
                    => a.party_preference = "Lean Democratic")

\* a profile of 8 D, 1 R and 1 other donation: exactly 80%, Strong Democratic
C1_Witness ==
    \E g \in Profiles :
        /\ g.party_analysis.democratic_count = 8
        /\ g.party_analysis.republican_count = 1
        /\ g.party_analysis.total_donations = 10
        /\ Len(g.donations) = 10
        /\ g.party_analysis.party_preference = "Strong Democratic"

(***************************************************************************)
(* SpecFold: group_donors_and_analyze_party on results in every order      *)
(***************************************************************************)
MaxFoldRecs == 3

\* a donation together with the name of the query whose result holds it
TaggedPool ==
    {[searched_name |-> n, donation |-> d] :
        n \in {QueryNames[1], QueryNames[2]}, d \in {RecDem, RecRep, RecOther}}

\* the results holding the tagged donations in this order: consecutive
\* donations of one query are one successful result
RECURSIVE AsResults(_)
AsResults(fl) ==
    IF fl = <<>> THEN <<>>
    ELSE LET rest == AsResults(Tail(fl))
         IN  IF rest # <<>> /\ rest[1].name = fl[1].searched_name
             THEN <<OkResult(rest[1].name, 200, <<fl[1].donation>> \o rest[1].donations)>>
                      \o Tail(rest)
             ELSE <<OkResult(fl[1].searched_name, 200, <<fl[1].donation>>)>> \o rest

InitFold ==
    /\ pc = "fold"
    /\ flat \in SeqsUpTo(TaggedPool, MaxFoldRecs)
    /\ results = AsResults(flat)
    /\ donor_groups = <<>>
    /\ names = <<>> /\ i = 0 /\ sleeps = 0 /\ fetches = <<>>
    /\ ParseIdle /\ GroupIdle /\ SplitIdle

Fold ==
    /\ pc = "fold"
    /\ donor_groups' = group_donors_and_analyze_party(results)
    /\ pc' = "folded"
    /\ UNCHANGED <<names, i, results, sleeps, fetches, flat, s_blob, s_query, s_split>>
    /\ UNCHANGED parseVars
    /\ UNCHANGED groupVars

NextFold == Fold

SpecFold == InitFold /\ [][NextFold]_vars

\* every ordering of the tagged donations
Orderings(fl) ==
    {[k \in DOMAIN fl |-> fl[f[k]]] : f \in Permutations(DOMAIN fl)}

SeqBag(sq) == [x \in Range(sq) |-> Cardinality({k \in DOMAIN sq : sq[k] = x})]

\* the positions of fl whose donation has this key
KeyPositions(fl, key) == {k \in DOMAIN fl : extract_donor_key(fl[k].donation) = key}

\* C2 as stated: every ordering of the same donations gives the same mapping,
\* whole profiles included.
C2_OrderIndependentProfiles ==
    pc = "folded" =>
        \A fl \in Orderings(flat) :
            group_donors_and_analyze_party(AsResults(fl)) = donor_groups

\* C2 amended: in every ordering the keys, the party tallies, percentages and
\* party_preference and the multiset of member records of every key are the
\* same; donor_info is that of the first donation folded for the key and the
\* member records are listed in folding order.
C2_OrderIndependentTallies ==
    pc = "folded" =>
        /\ \A fl \in Orderings(flat) :
              LET other == group_donors_and_analyze_party(AsResults(fl))
              IN  /\ DOMAIN other = DOMAIN donor_groups
                  /\ \A key \in DOMAIN other :
                        /\ other[key].party_analysis = donor_groups[key].party_analysis
                        /\ SeqBag(other[key].donations) = SeqBag(donor_groups[key].donations)
        /\ DOMAIN donor_groups = {extract_donor_key(flat[k].donation) : k \in DOMAIN flat}
        /\ \A key \in DOMAIN donor_groups :
              LET pos == KeyPositions(flat, key)
                  first == CHOOSE k \in pos : \A m \in pos : k <= m
                  g == donor_groups[key]
              IN  /\ g.donor_info.searched_name = flat[first].searched_name
                  /\ g.donor_info.employer = flat[first].donation.employer
                  /\ Len(g.donations) = Cardinality(pos)
                  /\ \A k \in pos :
                        g.donations[1 + Cardinality({m \in pos : m < k})] = flat[k].donation

\* two donations of one donor from two queries and one of another donor
C2_Witness ==
    /\ pc = "folded"
    /\ Len(flat) = 3
    /\ flat[1] = [searched_name |-> QueryNames[1], donation |-> RecDem]
    /\ flat[2] = [searched_name |-> QueryNames[2], donation |-> RecOther]
    /\ flat[3] = [searched_name |-> QueryNames[2], donation |-> RecRep]
    /\ Cardinality(DOMAIN donor_groups) = 2
    /\ Len(donor_groups[extract_donor_key(RecDem)].donations) = 2

PreferenceLabels ==
    {"Strong Democratic", "Strong Republican", "Lean Democratic", "Lean Republican",
     "Mixed/Independent"}

\* C15: a profile exists only because a record was folded into it: every
\* profile of the returned mapping has total_donations >= 1 and at least one
\* member record, and its party_preference is one of the five labels, never
\* "Unknown"; folding no record returns no profile.
C15_NoEmptyProfile ==
    pc = "folded" =>
        /\ \A key \in DOMAIN donor_groups :
              LET g == donor_groups[key]
              IN  /\ g.party_analysis.total_donations >= 1
                  /\ Len(g.donations) >= 1
                  /\ \E k \in DOMAIN flat : extract_donor_key(flat[k].donation) = key
                  /\ g.party_analysis.party_preference \in PreferenceLabels
                  /\ g.party_analysis.party_preference # "Unknown"
        /\ flat = <<>> => DOMAIN donor_groups = {}

\* two profiles of one record each, one given to neither party
C15_Witness ==
    /\ pc = "folded"
    /\ Len(flat) = 2
    /\ flat[1].donation = RecOther /\ flat[2].donation = RecRep
    /\ Cardinality(DOMAIN donor_groups) = 2
    /\ \A key \in DOMAIN donor_groups :
          donor_groups[key].party_analysis.total_donations = 1
    /\ donor_groups[extract_donor_key(RecOther)].party_analysis.party_preference
          = "Mixed/Independent"
    /\ donor_groups[extract_donor_key(RecRep)].party_analysis.party_preference
          = "Strong Republican"

(***************************************************************************)
(* Spec: the program (__main__): process_all_donors, then the aggregation  *)
(***************************************************************************)
MaxNames == 3

PageNoTable == <<>>
PageHeaderOnly == <<<<RowHeader>>>>
PageAl == <<<<RowHeader, RowDem, RowBadAmount, RowRep>>>>
PageAlRep == <<<<RowHeader, RowRep, RowShort>>>>
PageBo == <<<<RowHeader, RowOther, RowDem>>>>

PagePool == {PageNoTable, PageHeaderOnly, PageAl, PageAlRep, PageBo}

\* what requests.get(url, headers, timeout=30) can do
FetchOutcomes ==
    {[kind |-> "exception", error |-> "ConnectTimeout", status |-> 0, text |-> <<>>],
     [kind |-> "response", error |-> "", status |-> 404, text |-> PageNoTable]}
    \cup {[kind |-> "response", error |-> "", status |-> 200, text |-> page] :
            page \in PagePool}

Init ==
    /\ pc = "start"
    /\ PipelineIdle /\ ParseIdle /\ FoldIdle /\ GroupIdle /\ SplitIdle

\* load_names_from_json: the unique names of the file, in some order
LoadNames ==
    /\ pc = "start"
    /\ \E n \in 0..MaxNames :
          /\ n <= Len(QueryNames)
          /\ names' = SubSeq(QueryNames, 1, n)
          /\ pc' = IF n = 0 THEN "save" ELSE "query"
    /\ i' = 1
    /\ results' = <<>>
    /\ UNCHANGED <<sleeps, fetches, donor_groups, flat, s_blob, s_query, s_split>>
    /\ UNCHANGED parseVars
    /\ UNCHANGED groupVars

\* one iteration of the loop up to the delay: query_opensecrets_donor(name),
\* results.append(result)
Query ==
    /\ pc = "query"
    /\ \E outcome \in FetchOutcomes :
          /\ results' = Append(results, QueryResult(names[i], outcome))
          /\ fetches' = Append(fetches, [name |-> names[i], outcome |-> outcome])
    /\ pc' = AfterQuery(i, Len(names))
    /\ UNCHANGED <<names, i, sleeps, donor_groups, flat, s_blob, s_query, s_split>>
    /\ UNCHANGED parseVars
    /\ UNCHANGED groupVars

\* time.sleep(delay_seconds), then the next iteration
Sleep ==
    /\ pc = "sleep"
    /\ sleeps' = sleeps + 1
    /\ i' = i + 1
    /\ pc' = "query"
    /\ UNCHANGED <<names, results, fetches, donor_groups, flat, s_blob, s_query, s_split>>
    /\ UNCHANGED parseVars
    /\ UNCHANGED groupVars

\* save_results_to_file(results, output_file)
SaveResults ==
    /\ pc = "save"
    /\ pc' = "group"
    /\ UNCHANGED <<names, i, results, sleeps, fetches, donor_groups, flat, s_blob, s_query, s_split>>
    /\ UNCHANGED parseVars
    /\ UNCHANGED groupVars

\* donor_groups = group_donors_and_analyze_party(results)
GroupDonors ==
    /\ pc = "group"
    /\ donor_groups' = group_donors_and_analyze_party(results)
    /\ pc' = "export"
    /\ UNCHANGED <<names, i, results, sleeps, fetches, flat, s_blob, s_query, s_split>>
    /\ UNCHANGED parseVars
    /\ UNCHANGED groupVars

\* the three exports and the summary
Export ==
    /\ pc = "export"
    /\ pc' = "done"
    /\ UNCHANGED <<names, i, results, sleeps, fetches, donor_groups, flat, s_blob, s_query, s_split>>
    /\ UNCHANGED parseVars
    /\ UNCHANGED groupVars

Next == LoadNames \/ Query \/ Sleep \/ SaveResults \/ GroupDonors \/ Export

Spec == Init /\ [][Next]_vars

\* process_all_donors has returned
Returned == pc \in {"save", "group", "export", "done"}

\* group_donors_and_analyze_party has returned
Grouped == pc \in {"export", "done"}

\* requests.get raised, or raise_for_status did
FetchFailed(f) == f.outcome.kind = "exception" \/ f.outcome.status >= 400

\* the donations of the results, as <<result index, donation index>>
ResultRecords ==
    UNION {{<<q, k>> : k \in DOMAIN results[q].donations} : q \in DOMAIN results}

RecordAt(qk) == results[qk[1]].donations[qk[2]]

CasePair(c, d) == \E j \in DOMAIN Lowers : {c, d} = {Lowers[j], Uppers[j]}

EqualUpToCase(a, b) ==
    /\ Len(a) = Len(b)
    /\ \A k \in DOMAIN a : a[k] = b[k] \/ CasePair(a[k], b[k])

\* the name of a record: the contributor text before the first newline, trimmed
NameBeforeNewline(d) == StrStrip(FirstLine(d.contributor))

SameDonorUpToCase(a, b) ==
    /\ EqualUpToCase(NameBeforeNewline(a), NameBeforeNewline(b))
    /\ EqualUpToCase(a.contributor_state, b.contributor_state)
    /\ EqualUpToCase(a.employer, b.employer)
    /\ EqualUpToCase(a.occupation, b.occupation)

\* C3: records equal up to letter case in name, state, employer and occupation
\* have one key and are members of one profile, from one result or from two;
\* records with different keys are never members of one profile.
C3_CaseInsensitiveKey ==
    Grouped =>
        \A x \in ResultRecords, y \in ResultRecords :
            LET a == RecordAt(x)
                b == RecordAt(y)
            IN  /\ SameDonorUpToCase(a, b) =>
                      /\ extract_donor_key(a) = extract_donor_key(b)
                      /\ \E key \in DOMAIN donor_groups :
                            {a, b} \subseteq Range(donor_groups[key].donations)
                /\ extract_donor_key(a) # extract_donor_key(b) =>
                      ~ \E key \in DOMAIN donor_groups :
                            {a, b} \subseteq Range(donor_groups[key].donations)

\* "Al" of one query and "AL" of another end in one profile, "Bo" in another
C3_Witness ==
    /\ pc = "done"
    /\ \E x \in ResultRecords, y \in ResultRecords, z \in ResultRecords :
          /\ x[1] # y[1]
          /\ RecordAt(x) = RecDem /\ RecordAt(y) = RecRep /\ RecordAt(z) = RecOther
          /\ RecDem.contributor # RecRep.contributor
          /\ {RecDem, RecRep} \subseteq
                Range(donor_groups[extract_donor_key(RecDem)].donations)
          /\ RecOther \notin Range(donor_groups[extract_donor_key(RecDem)].donations)

RECURSIVE SumOver(_, _)
SumOver(f, S) ==
    IF S = {} THEN 0
    ELSE LET x == CHOOSE y \in S : TRUE IN f[x] + SumOver(f, S \ {x})

\* C4: process_all_donors returns one result per name, in name order; a name
\* whose fetch failed has success = false, an error string and no records;
\* every name was queried; the aggregation holds exactly the records of the
\* pages fetched successfully.
C4_PartialFailureIsolation ==
    /\ Returned =>
          /\ Len(results) = Len(names)
          /\ Len(fetches) = Len(names)
          /\ \A k \in DOMAIN names :
                /\ results[k].name = names[k]
                /\ fetches[k].name = names[k]
                /\ FetchFailed(fetches[k]) =>
                      /\ results[k].success = FALSE
                      /\ results[k].error # None
                      /\ results[k].donations = <<>>
                /\ ~FetchFailed(fetches[k]) => results[k].success = TRUE
    /\ Grouped =>
          LET ok == {k \in DOMAIN fetches : ~FetchFailed(fetches[k])}
              fetched == [k \in ok |-> Len(parse_donation_table(fetches[k].outcome.text))]
              members == [key \in DOMAIN donor_groups |-> Len(donor_groups[key].donations)]
          IN  /\ SumOver(members, DOMAIN donor_groups) = SumOver(fetched, ok)
              /\ \A key \in DOMAIN donor_groups :
                    \E k \in ok : donor_groups[key].donor_info.searched_name = names[k]

\* the first fetch fails, the second is refused with 404, the third succeeds
C4_Witness ==
    /\ pc = "done"
    /\ Len(names) = 3
    /\ fetches[1].outcome.kind = "exception"
    /\ fetches[2].outcome.status = 404
    /\ fetches[3].outcome.text = PageAl
    /\ ~results[1].success /\ ~results[2].success /\ results[3].success
    /\ Len(results[3].donations) = 2
    /\ DOMAIN donor_groups = {extract_donor_key(RecDem)}

\* the consistency of one per-query result record
ResultConsistent(r) ==
    /\ r.total_donations = Len(r.donations)
    /\ r.total_amount = SumOver([k \in DOMAIN r.donations |-> r.donations[k].amount_numeric],
                                DOMAIN r.donations)
    /\ r.success = TRUE <=> (r.error = None /\ r.status_code # None)
    /\ r.success = FALSE =>
          r.donations = <<>> /\ r.total_donations = 0 /\ r.total_amount = 0

\* C7 as stated: every per-query result record is consistent and exposes its
\* records as variants, a list of VariantGroups.
C7_ConsistentWithVariants ==
    \A k \in DOMAIN results :
        /\ "variants" \in DOMAIN results[k]
        /\ ResultConsistent(results[k])

\* C7 amended: every per-query result record is consistent (totals, success,
\* error, status_code as stated) and exposes its records as donations, the flat
\* list of the DonationRecords; it has no variants field.
C7_ConsistentResult ==
    \A k \in DOMAIN results :
        /\ DOMAIN results[k] = {"name", "url", "status_code", "donations",
                                "total_donations", "total_amount", "success", "error"}
        /\ ResultConsistent(results[k])

\* a failed result and a successful one with two records and their sum
C7_Witness ==
    /\ Len(results) >= 2
    /\ results[1].success = FALSE /\ results[1].error = Some("ConnectTimeout")
    /\ results[2].success = TRUE /\ results[2].status_code = Some(200)
    /\ results[2].total_donations = 2
    /\ results[2].total_amount = 1205

\* C8: the aggregation starts only after the query of every name has completed:
\* when group_donors_and_analyze_party is about to run or has run, and whenever
\* the mapping holds a profile, every name has its result.
C8_FanInBarrier ==
    /\ (pc \in {"group", "export", "done"} \/ DOMAIN donor_groups # {}) =>
          /\ Len(results) = Len(names)
          /\ Len(fetches) = Len(names)
          /\ \A k \in DOMAIN names : fetches[k].name = names[k] /\ results[k].name = names[k]
    /\ pc \in {"start", "query", "sleep", "save", "group"} => DOMAIN donor_groups = {}

\* three names, the last query fails, the aggregation has folded the others
C8_Witness ==
    /\ pc = "export"
    /\ Len(names) = 3
    /\ results[1].success /\ results[2].success /\ ~results[3].success
    /\ Cardinality(DOMAIN donor_groups) = 2

\* the positions of the member records of profile g given to a party in ps
MembersTo(g, ps) == {k \in DOMAIN g.donations : g.donations[k].recipient_party \in ps}

\* the sum of amount_numeric over the member positions S of profile g
MemberAmount(g, S) == SumOver([k \in S |-> g.donations[k].amount_numeric], S)

\* the number of times the record d is a member of profile g
TimesMember(g, d) == Cardinality({k \in DOMAIN g.donations : g.donations[k] = d})

\* the records of the successful results, as <<result index, donation index>>
SuccessfulRecords == {qk \in ResultRecords : results[qk[1]].success}

\* C13: after the aggregation, every record of a successful result is a member
\* of exactly one profile, as often as it was returned; in every profile the
\* three party counts are the numbers of member records given to D, to R and
\* to neither and add up to total_donations, the number of member records; the
\* three party amounts are the sums of their amount_numeric and add up to
\* total_amount; and total_donations over all profiles is the number of
\* records of the successful results.
C13_TallyConservation ==
    Grouped =>
        /\ \A qk \in SuccessfulRecords :
              LET d == RecordAt(qk)
                  holders == {key \in DOMAIN donor_groups : TimesMember(donor_groups[key], d) > 0}
              IN  /\ holders = {extract_donor_key(d)}
                  /\ TimesMember(donor_groups[extract_donor_key(d)], d)
                        = Cardinality({x \in SuccessfulRecords : RecordAt(x) = d})
        /\ \A key \in DOMAIN donor_groups :
              LET g == donor_groups[key]
                  pa == g.party_analysis
                  dem == MembersTo(g, {<<"D">>})
                  rep == MembersTo(g, {<<"R">>})
                  oth == DOMAIN g.donations \ (dem \cup rep)
              IN  /\ pa.democratic_count = Cardinality(dem)
                  /\ pa.republican_count = Cardinality(rep)
                  /\ pa.other_count = Cardinality(oth)
                  /\ pa.democratic_count + pa.republican_count + pa.other_count
                        = pa.total_donations
                  /\ pa.total_donations = Len(g.donations)
                  /\ pa.democratic_amount = MemberAmount(g, dem)
                  /\ pa.republican_amount = MemberAmount(g, rep)
                  /\ pa.other_amount = MemberAmount(g, oth)
                  /\ pa.democratic_amount + pa.republican_amount + pa.other_amount
                        = pa.total_amount
                  /\ pa.total_amount = MemberAmount(g, DOMAIN g.donations)
        /\ SumOver([key \in DOMAIN donor_groups |->
                        donor_groups[key].party_analysis.total_donations],
                   DOMAIN donor_groups)
              = Cardinality(SuccessfulRecords)

\* a failed query, then two pages that both return the same record of one
\* donor: the profile holds it twice, beside a record given to R and, in a
\* second profile, a record given to neither party
C13_Witness ==
    /\ pc = "done"
    /\ Len(names) = 3
    /\ ~results[1].success
    /\ fetches[2].outcome.text = PageAl /\ fetches[3].outcome.text = PageBo
    /\ Cardinality(DOMAIN donor_groups) = 2
    /\ LET pa == donor_groups[extract_donor_key(RecDem)].party_analysis
       IN  /\ pa.democratic_count = 2 /\ pa.republican_count = 1
           /\ pa.total_amount = 1210
    /\ donor_groups[extract_donor_key(RecOther)].party_analysis.other_count = 1

\* C14: the names are queried one at a time in list order, the k-th query
\* being issued once the first k-1 have returned and k-1 delays have been
\* taken; a delay is taken only between two queries, never after the last:
\* process_all_donors returns after n queries and n-1 delays (none for n <= 1),
\* whether the queries succeeded or failed.
C14_QueryPacing ==
    /\ \A k \in DOMAIN fetches : fetches[k].name = names[k]
    /\ Len(fetches) = Len(results)
    /\ pc = "query" => i \in DOMAIN names /\ Len(fetches) = i - 1 /\ sleeps = i - 1
    /\ pc = "sleep" => i < Len(names) /\ Len(fetches) = i /\ sleeps = i - 1
    /\ Returned =>
          /\ Len(fetches) = Len(names)
          /\ sleeps = IF Len(names) <= 1 THEN 0 ELSE Len(names) - 1

\* three names, the second query failed: three queries and two delays
C14_Witness ==
    /\ pc = "save"
    /\ Len(names) = 3
    /\ Len(fetches) = 3
    /\ FetchFailed(fetches[2]) /\ ~FetchFailed(fetches[1])
    /\ sleeps = 2

(***************************************************************************)
(* The fuzzy variant grouper (specification sections 3 and 4.3)            *)
(***************************************************************************)
Min(a, b) == IF a <= b THEN a ELSE b

\* the matching blocks of a and b: <<start in a, start in b, length>>
MatchingBlocks(a, b) ==
    {<<x, y, n>> \in (DOMAIN a) \X (DOMAIN b) \X (1..Min(Len(a), Len(b))) :
        /\ x + n - 1 <= Len(a)
        /\ y + n - 1 <= Len(b)
        /\ SubSeq(a, x, x + n - 1) = SubSeq(b, y, y + n - 1)}

\* the longest block, the earliest in a and then in b among the longest
LongestBlock(a, b) ==
    CHOOSE m \in MatchingBlocks(a, b) :
        \A o \in MatchingBlocks(a, b) :
            \/ o[3] < m[3]
            \/ o[3] = m[3] /\ m[1] < o[1]
            \/ o[3] = m[3] /\ m[1] = o[1] /\ m[2] <= o[2]

\* M: the total length of the matching blocks, found by taking the longest
\* block and matching again to its left and to its right
RECURSIVE MatchedLength(_, _)
MatchedLength(a, b) ==
    IF MatchingBlocks(a, b) = {} THEN 0
    ELSE LET m == LongestBlock(a, b)
         IN  m[3] + MatchedLength(SubSeq(a, 1, m[1] - 1), SubSeq(b, 1, m[2] - 1))
                  + MatchedLength(SubSeq(a, m[1] + m[3], Len(a)),
                                  SubSeq(b, m[2] + m[3], Len(b)))

\* similarity of two addresses, 2M / T over the upper-cased, trimmed texts, as
\* the fraction <<numerator, denominator>>; 0 when either text is empty
AddressSimilarity(addr1, addr2) ==
    LET a == StrStrip(StrUpper(addr1))
        b == StrStrip(StrUpper(addr2))
    IN  IF a = <<>> \/ b = <<>> THEN <<0, 1>>
        ELSE <<2 * MatchedLength(a, b), Len(a) + Len(b)>>

SimilarityPercent == 80

\* similarity >= 0.80
Similar(addr1, addr2) ==
    LET r == AddressSimilarity(addr1, addr2)
    IN  100 * r[1] >= SimilarityPercent * r[2]

\* (mutant of JoinsSeed: consumed records are scanned too)
JoinsSeed_IgnoreConsumed(recs, used, seed) ==
    {j \in DOMAIN recs :
        /\ j # seed
        /\ Similar(recs[j].contributor_address, recs[seed].contributor_address)}

\* (mutant of JoinsSeed: a record joins when it is similar to the seed or to a
\* record that is similar to the seed)
JoinsSeed_Transitive(recs, used, seed) ==
    LET direct == {j \in DOMAIN recs \ used :
                      /\ j # seed
                      /\ Similar(recs[j].contributor_address,
                                 recs[seed].contributor_address)}
    IN  direct \cup
        {j \in DOMAIN recs \ used :
            /\ j # seed
            /\ \E d \in direct : Similar(recs[j].contributor_address,
                                         recs[d].contributor_address)}

\* the other unconsumed records whose address is similar to the seed's
JoinsSeed(recs, used, seed) ==
    {j \in DOMAIN recs \ used :
        /\ j # seed
        /\ Similar(recs[j].contributor_address, recs[seed].contributor_address)}

\* the elements of the index set S, in increasing order
RECURSIVE Ascending(_)
Ascending(S) ==
    IF S = {} THEN <<>>
    ELSE LET lo == CHOOSE k \in S : \A m \in S : k <= m
         IN  <<lo>> \o Ascending(S \ {lo})

\* the VariantGroup seeded with recs[seed]
SeededGroup(recs, used, seed) ==
    LET joined == Ascending(JoinsSeed(recs, used, seed))
    IN  [representative_name    |-> recs[seed].contributor_name,
         representative_address |-> recs[seed].contributor_address,
         member_records         |-> <<recs[seed]>> \o [k \in DOMAIN joined |-> recs[joined[k]]]]

AddrEmpty == <<>>
AddrAB == <<"A", "B">>
AddrABC == <<"A", "B", "C">>
AddrABCD == <<"A", "B", "C", "D">>
AddrAbcPadded == <<"a", "b", "c", " ">>

AddressPool == {AddrEmpty, AddrAB, AddrABC, AddrABCD, AddrAbcPadded}

MaxGroupRecs == 3

\* the records of two queries: the addresses, in order, the first `cut` of them
\* in the result of the first query and the others in that of the second; query
\* and row identify the record
GroupRecords(addrs, cut) ==
    LET rec(q, k, a) == [query |-> QueryNames[q], row |-> k,
                         contributor_name |-> TxtBo, contributor_address |-> a]
    IN  <<[k \in 1..cut |-> rec(1, k, addrs[k])],
          [k \in 1..(Len(addrs) - cut) |-> rec(2, k, addrs[cut + k])]>>

GroupInputs ==
    {GroupRecords(addrs, cut) :
        <<addrs, cut>> \in {ac \in SeqsUpTo(AddressPool, MaxGroupRecs) \X (0..MaxGroupRecs) :
                              ac[2] <= Len(ac[1])}}

InitGroup ==
    /\ pc = "g_call"
    /\ g_recs \in GroupInputs
    /\ g_q = 0 /\ g_i = 0 /\ g_used = {} /\ g_groups = <<>> /\ variants = <<>>
    /\ PipelineIdle /\ ParseIdle /\ FoldIdle /\ SplitIdle

\* group(records) is called on the records of the next query: the consumed set
\* and the groups are local to the call
BeginGroup ==
    /\ pc = "g_call"
    /\ Len(variants) < Len(g_recs)
    /\ g_q' = Len(variants) + 1
    /\ g_i' = 1
    /\ g_used' = {}
    /\ g_groups' = <<>>
    /\ pc' = "g_loop"
    /\ UNCHANGED <<g_recs, variants, flat, s_blob, s_query, s_split>>
    /\ UNCHANGED pipelineVars
    /\ UNCHANGED parseVars

\* the record at g_i is consumed: the loop moves on
SkipConsumed ==
    /\ pc = "g_loop"
    /\ g_i <= Len(g_recs[g_q])
    /\ g_i \in g_used
    /\ g_i' = g_i + 1
    /\ UNCHANGED <<pc, g_recs, g_q, g_used, g_groups, variants, flat, s_blob, s_query, s_split>>
    /\ UNCHANGED pipelineVars
    /\ UNCHANGED parseVars

\* the record at g_i is unconsumed: it seeds a group, and the scan of the other
\* unconsumed records adds those similar to it
SeedGroup ==
    /\ pc = "g_loop"
    /\ g_i <= Len(g_recs[g_q])
    /\ g_i \notin g_used
    /\ g_groups' = Append(g_groups, SeededGroup(g_recs[g_q], g_used, g_i))
    /\ g_used' = g_used \cup {g_i} \cup JoinsSeed(g_recs[g_q], g_used, g_i)
    /\ g_i' = g_i + 1
    /\ UNCHANGED <<pc, g_recs, g_q, variants, flat, s_blob, s_query, s_split>>
    /\ UNCHANGED pipelineVars
    /\ UNCHANGED parseVars

\* the loop is over: group returns the groups
EndGroup ==
    /\ pc = "g_loop"
    /\ g_i > Len(g_recs[g_q])
    /\ variants' = Append(variants, g_groups)
    /\ pc' = "g_call"
    /\ UNCHANGED <<g_recs, g_q, g_i, g_used, g_groups, flat, s_blob, s_query, s_split>>
    /\ UNCHANGED pipelineVars
    /\ UNCHANGED parseVars

NextGroup == BeginGroup \/ SkipConsumed \/ SeedGroup \/ EndGroup

SpecGroup == InitGroup /\ [][NextGroup]_vars

\* the groups of query q that hold the record r, counted with multiplicity
Holders(q, r) ==
    {<<n, m>> \in (DOMAIN variants[q]) \X (DOMAIN g_recs[q]) :
        /\ m <= Len(variants[q][n].member_records)
        /\ variants[q][n].member_records[m] = r}

\* C9: the groups returned for a query partition its records: every record is
\* in exactly one group, no group is empty, there are at most as many groups as
\* records, and no group holds a record of another query.
C9_GroupingIsPartition ==
    \A q \in DOMAIN variants :
        /\ \A k \in DOMAIN g_recs[q] : Cardinality(Holders(q, g_recs[q][k])) = 1
        /\ Len(variants[q]) <= Len(g_recs[q])
        /\ \A n \in DOMAIN variants[q] :
              /\ variants[q][n].member_records # <<>>
              /\ Len(variants[q][n].member_records) <= Len(g_recs[q])
              /\ \A m \in DOMAIN variants[q][n].member_records :
                    /\ variants[q][n].member_records[m].query = QueryNames[q]
                    /\ variants[q][n].member_records[m] \in Range(g_recs[q])

\* both queries grouped: two similar records of the first query in one group,
\* and a record of the second query with the same address in a group of its own
C9_Witness ==
    /\ Len(variants) = 2
    /\ Len(g_recs[1]) = 2 /\ Len(variants[1]) = 1
    /\ Len(variants[1][1].member_records) = 2
    /\ Len(g_recs[2]) = 1 /\ Len(variants[2]) = 1
    /\ g_recs[1][1].contributor_address = AddrABC
    /\ g_recs[1][2].contributor_address = AddrAbcPadded
    /\ g_recs[2][1].contributor_address = AddrABC
    /\ variants[2][1].member_records = <<g_recs[2][1]>>

\* the similarity of the claim: 2M / T >= 0.80, on the matched length
SimilarAddresses(r1, r2) ==
    LET a == StrStrip(StrUpper(r1.contributor_address))
        b == StrStrip(StrUpper(r2.contributor_address))
    IN  a # <<>> /\ b # <<>> /\ 10 * MatchedLength(a, b) >= 4 * (Len(a) + Len(b))

\* the rows that seed a group among the first k rows of recs: a row seeds a
\* group exactly when it is similar to no earlier seed
RECURSIVE SeedRows(_, _)
SeedRows(recs, k) ==
    IF k = 0 THEN {}
    ELSE LET before == SeedRows(recs, k - 1)
         IN  IF \E s \in before : SimilarAddresses(recs[k], recs[s])
             THEN before ELSE before \cup {k}

\* the groups hold, in seed order, each seed followed in row order by the rows
\* similar to the seed that no earlier seed took
GreedyGroups(recs, groups, upto) ==
    LET seeds == {s \in SeedRows(recs, Len(recs)) : s < upto}
    IN  /\ Len(groups) = Cardinality(seeds)
        /\ \A s \in seeds :
              LET g == groups[1 + Cardinality({t \in seeds : t < s})]
                  rows == {s} \cup
                          {j \in DOMAIN recs :
                              /\ j > s
                              /\ SimilarAddresses(recs[j], recs[s])
                              /\ \A t \in seeds : t < s => ~SimilarAddresses(recs[j], recs[t])}
              IN  /\ g.member_records[1] = recs[s]
                  /\ g.representative_address = recs[s].contributor_address
                  /\ Len(g.member_records) = Cardinality(rows)
                  /\ \A j \in rows :
                        g.member_records[1 + Cardinality({m \in rows : m < j})] = recs[j]

\* C10: grouping is greedy and relative to the seed: records are visited in
\* order, each unconsumed record seeds a group, an unconsumed record joins it
\* exactly when its address is similar (>= 0.80) to the seed's, never through
\* another member; a group once built and a record once consumed never change.
C10_GreedySeedRelative ==
    /\ [](/\ \A q \in DOMAIN variants :
                GreedyGroups(g_recs[q], variants[q], Len(g_recs[q]) + 1)
          /\ pc = "g_loop" => GreedyGroups(g_recs[g_q], g_groups, g_i))
    /\ [][pc = "g_loop" /\ pc' = "g_loop" =>
            /\ g_used \subseteq g_used'
            /\ Len(g_groups) <= Len(g_groups')
            /\ SubSeq(g_groups', 1, Len(g_groups)) = g_groups]_vars

\* AB seeds a group that ABC joins; ABCD is similar to ABC and not to AB, and
\* seeds its own group
C10_Witness ==
    /\ pc = "g_call"
    /\ Len(variants) >= 1
    /\ Len(g_recs[1]) = 3
    /\ g_recs[1][1].contributor_address = AddrAB
    /\ g_recs[1][2].contributor_address = AddrABC
    /\ g_recs[1][3].contributor_address = AddrABCD
    /\ SimilarAddresses(g_recs[1][3], g_recs[1][2])
    /\ ~SimilarAddresses(g_recs[1][3], g_recs[1][1])
    /\ Len(variants[1]) = 2
    /\ variants[1][1].member_records = <<g_recs[1][1], g_recs[1][2]>>
    /\ variants[1][2].member_records = <<g_recs[1][3]>>

(***************************************************************************)
(* The name/address splitter (specification section 4.1)                   *)
(***************************************************************************)
\* the whitespace-separated tokens of a text, in order
RECURSIVE Tokens(_)
Tokens(t) ==
    LET solid == {k \in DOMAIN t : t[k] \notin Whitespace}
    IN  IF solid = {} THEN <<>>
        ELSE LET lo == CHOOSE k \in solid : \A m \in solid : k <= m
                 hi == RunEnd(t, lo, Range(t) \ Whitespace)
             IN  <<SubSeq(t, lo, hi)>> \o Tokens(SubSeq(t, hi + 1, Len(t)))

\* the positions at which needle occurs in hay
Occurrences(hay, needle) ==
    {p \in DOMAIN hay :
        /\ p + Len(needle) - 1 <= Len(hay)
        /\ SubSeq(hay, p, p + Len(needle) - 1) = needle}

\* <<first, last>> of a query name: "LAST, FIRST ..." or "FIRST ... LAST"; a
\* token that is missing is empty
ParseQueryName(queryName) ==
    LET commas == {k \in DOMAIN queryName : queryName[k] = ","}
    IN  IF commas # {}
        THEN LET c == CHOOSE k \in commas : \A m \in commas : k <= m
                 after == Tokens(SubSeq(queryName, c + 1, Len(queryName)))
             IN  <<IF after = <<>> THEN <<>> ELSE after[1], SubSeq(queryName, 1, c - 1)>>
        ELSE LET toks == Tokens(queryName)
             IN  IF toks = <<>> THEN <<(<<>>), (<<>>)>>
                 ELSE IF Len(toks) = 1 THEN <<toks[1], (<<>>)>>
                 ELSE <<toks[1], toks[Len(toks)]>>

\* the two parts of blob around the boundary b, trimmed
SplitAt(blob, b) ==
    <<StrStrip(SubSeq(blob, 1, b)), StrStrip(SubSeq(blob, b + 1, Len(blob)))>>

\* (mutant of split: fallback C trims the blob like the other branches)
split_TrimmedFallback(blob, queryName) ==
    LET fl == ParseQueryName(queryName)
        first == StrUpper(fl[1])
        last == StrUpper(fl[2])
        upper == StrUpper(blob)
        firstAt == IF first = <<>> THEN {} ELSE Occurrences(upper, first)
        lastAt == IF last = <<>> THEN {} ELSE Occurrences(upper, last)
    IN  IF firstAt # {}
        THEN SplitAt(blob, (CHOOSE p \in firstAt : \A m \in firstAt : p <= m) + Len(first) - 1)
        ELSE IF lastAt # {}
        THEN SplitAt(blob, (CHOOSE p \in lastAt : \A m \in lastAt : m <= p) + Len(last) - 1)
        ELSE SplitAt(blob, Len(blob))

\* split(blob, queryName): steps 1 to 4 of the algorithm; the matching is done
\* on the upper-cased blob and tokens, the slicing on the blob itself
split(blob, queryName) ==
    LET fl == ParseQueryName(queryName)
        first == StrUpper(fl[1])
        last == StrUpper(fl[2])
        upper == StrUpper(blob)
        firstAt == IF first = <<>> THEN {} ELSE Occurrences(upper, first)
        lastAt == IF last = <<>> THEN {} ELSE Occurrences(upper, last)
    IN  IF firstAt # {}
        THEN LET f == CHOOSE p \in firstAt : \A m \in firstAt : p <= m
                 prefix == SubSeq(upper, 1, f - 1)
                 lastComma == last \o <<",">>
             IN  IF /\ last # <<>>
                    /\ Len(prefix) >= Len(lastComma)
                    /\ SubSeq(prefix, 1, Len(lastComma)) = lastComma
                 THEN SplitAt(blob, f + Len(first) - 1)
                 ELSE IF lastAt # {}
                 THEN SplitAt(blob, (CHOOSE p \in lastAt : \A m \in lastAt : m <= p)
                                        + Len(last) - 1)
                 ELSE SplitAt(blob, f + Len(first) - 1)
        ELSE IF lastAt # {}
        THEN SplitAt(blob, (CHOOSE p \in lastAt : \A m \in lastAt : m <= p) + Len(last) - 1)
        ELSE <<blob, (<<>>)>>

BlobChars == {"A", "l", "K", ",", " "}

MaxBlobLen == 4

QueryNamePool ==
    {<<>>, <<" ">>, <<",">>, <<"A", "L">>, <<"A", "L", " ", "K">>,
     <<"K", ",", " ", "A", "L">>, <<"K", ",">>, <<"Z">>}

InitSplit ==
    /\ pc = "split"
    /\ s_blob \in SeqsUpTo(BlobChars, MaxBlobLen)
    /\ s_query \in QueryNamePool
    /\ s_split = <<>>
    /\ PipelineIdle /\ ParseIdle /\ FoldIdle /\ GroupIdle

\* one call of split
Split ==
    /\ pc = "split"
    /\ s_split' = split(s_blob, s_query)
    /\ pc' = "split_done"
    /\ UNCHANGED <<s_blob, s_query, flat>>
    /\ UNCHANGED pipelineVars
    /\ UNCHANGED parseVars
    /\ UNCHANGED groupVars

NextSplit == Split

SpecSplit == InitSplit /\ [][NextSplit]_vars

\* the token occurs in the blob, letter case aside
OccursIn(token, blob) ==
    \E p \in DOMAIN blob :
        /\ p + Len(token) - 1 <= Len(blob)
        /\ \A k \in DOMAIN token :
              \/ blob[p + k - 1] = token[k]
              \/ CasePair(blob[p + k - 1], token[k])

\* C11: split always returns a pair of texts; when neither the first-name nor
\* the last-name token of the query name occurs in the blob, or both tokens are
\* empty, the pair is (blob, ""); an empty blob gives ("", "").
C11_SplitterTotal ==
    pc = "split_done" =>
        LET first == ParseQueryName(s_query)[1]
            last == ParseQueryName(s_query)[2]
        IN  /\ Len(s_split) = 2
            /\ s_split[1] \in SeqsUpTo(BlobChars, Len(s_blob))
            /\ s_split[2] \in SeqsUpTo(BlobChars, Len(s_blob))
            /\ ((first = <<>> \/ ~OccursIn(first, s_blob))
                    /\ (last = <<>> \/ ~OccursIn(last, s_blob)))
                  => s_split = <<s_blob, (<<>>)>>
            /\ s_blob = <<>> => s_split = <<(<<>>), (<<>>)>>

\* a blob with surrounding blanks and no token of the query name "AL K"
C11_Witness ==
    /\ pc = "split_done"
    /\ s_query = <<"A", "L", " ", "K">>
    /\ s_blob = <<" ", "A", ",", " ">>
    /\ s_split = <<s_blob, (<<>>)>>

====
